---- MODULE Spec2Model ----
(***************************************************************************)
(* A model of the service-logging crate: Severity, LogEntry, the log!      *)
(* macro, LogQueue, and the Logger implementations (CoralogixLogger,       *)
(* ConsoleLogger, BlackHoleLogger).                                        *)
(*                                                                         *)
(* A Rust String is modelled as a sequence of one-character strings, so    *)
(* that formatting, escaping, comparison and case are computed character   *)
(* by character as the code computes them.                                 *)
(***************************************************************************)
EXTENDS Integers, Sequences, FiniteSets, TLC

VARIABLES
    queue,      \* LogQueue.entries
    appended,   \* history: every entry ever put into the queue, in order
    drained,    \* history: one record per take() / clear(), in call order
    ret,        \* what the last LogQueue operation returned
    args,       \* the arguments of the call under study
    now,        \* the external clock, read by current_time_millis()
    pc,         \* position of the caller / of the async send
    requests,   \* POST requests handed to the HTTP client, in order
    output,     \* lines written by println! / console.log, in order
    result,     \* what the call under study returned
    resp,       \* the HTTP response as far as it has been received
    lock,       \* holder of the mutex around a shared LogQueue
    owners      \* per owner of a shared queue: position and entries appended

vars == <<queue, appended, drained, ret, args, now, pc, requests, output,
          result, resp, lock, owners>>

(***************************************************************************)
(* Bounds of the model.                                                    *)
(***************************************************************************)
MaxAppends == 3        \* entries appended to one queue in a behaviour
MaxDrains == 3         \* take() and clear() calls on one queue in a behaviour
MaxFrom == 1           \* entries handed to LogQueue::from
MaxPairs == 3          \* key:value pairs in one log! invocation
MaxBatch == 2          \* entries in a batch handed to Logger.send
MaxOwnerAppends == 2   \* appends by one owner of a shared queue

(***************************************************************************)
(* Strings.                                                                *)
(***************************************************************************)
\* The printable ASCII characters, in code order starting at code 32
\* (code 96, the grave accent, is written "grave").
Ascii ==
    <<" ", "!", "\"", "#", "$", "%", "&", "'", "(", ")", "*", "+", ",", "-",
      ".", "/", "0", "1", "2", "3", "4", "5", "6", "7", "8", "9", ":", ";",
      "<", "=", ">", "?", "@", "A", "B", "C", "D", "E", "F", "G", "H", "I",
      "J", "K", "L", "M", "N", "O", "P", "Q", "R", "S", "T", "U", "V", "W",
      "X", "Y", "Z", "[", "\\", "]", "^", "_", "grave", "a", "b", "c", "d", "e",
      "f", "g", "h", "i", "j", "k", "l", "m", "n", "o", "p", "q", "r", "s",
      "t", "u", "v", "w", "x", "y", "z", "{", "|", "}", "~">>

\* The byte value of a character (control characters used here: \t \n \r).
Ord(c) ==
    CASE c = "\t" -> 9
      [] c = "\n" -> 10
      [] c = "\r" -> 13
      [] OTHER -> 31 + CHOOSE i \in 1..Len(Ascii) : Ascii[i] = c

IsLowerCh(c) == Ord(c) >= Ord("a") /\ Ord(c) <= Ord("z")
IsUpperCh(c) == Ord(c) >= Ord("A") /\ Ord(c) <= Ord("Z")
ToUpperCh(c) == IF IsLowerCh(c) THEN Ascii[Ord(c) - 31 - 32] ELSE c
ToLowerCh(c) == IF IsUpperCh(c) THEN Ascii[Ord(c) - 31 + 32] ELSE c

ToUpper(s) == [i \in 1..Len(s) |-> ToUpperCh(s[i])]
ToLower(s) == [i \in 1..Len(s) |-> ToLowerCh(s[i])]
Capitalize(s) == [i \in 1..Len(s) |-> IF i = 1 THEN ToUpperCh(s[i]) ELSE s[i]]

RECURSIVE Concat(_)
\* The concatenation of a sequence of strings (format! of several pieces).
Concat(parts) ==
    IF parts = <<>> THEN <<>> ELSE Head(parts) \o Concat(Tail(parts))

\* needle occurs in hay as a contiguous substring (str::contains).
Contains(hay, needle) ==
    \E i \in 0..(Len(hay) - Len(needle)) :
        SubSeq(hay, i + 1, i + Len(needle)) = needle

RECURSIVE NatDigits(_)
NatDigits(n) ==
    IF n < 10 THEN <<Ascii[n + 17]>>
    ELSE NatDigits(n \div 10) \o <<Ascii[(n % 10) + 17]>>

\* Display of an integer: decimal digits, "-" in front of a negative one.
IntToString(n) == IF n < 0 THEN <<"-">> \o NatDigits(0 - n) ELSE NatDigits(n)

RECURSIVE StrLess(_, _)
\* Ord for String: lexicographic by bytes, a proper prefix comes first.
StrLess(a, b) ==
    IF b = <<>> THEN FALSE
    ELSE IF a = <<>> THEN TRUE
    ELSE IF Head(a) = Head(b) THEN StrLess(Tail(a), Tail(b))
    ELSE Ord(Head(a)) < Ord(Head(b))

None == [some |-> FALSE, val |-> <<>>]
Some(s) == [some |-> TRUE, val |-> s]

Ok == [ok |-> TRUE, msg |-> <<>>]
Err(m) == [ok |-> FALSE, msg |-> m]

(***************************************************************************)
(* Severity (logging.rs 10-66).  A Severity is its repr(u8) tag.           *)
(***************************************************************************)
Debug == 1
Verbose == 2
Info == 3
Warning == 4
Error == 5
Critical == 6
Severity == {Debug, Verbose, Info, Warning, Error, Critical}

ParseOk(sev) == [ok |-> TRUE, sev |-> sev, msg |-> <<>>]
ParseErr(m) == [ok |-> FALSE, sev |-> 0, msg |-> m]

Severity_from_str_dropcase(s) ==
    CASE s \in {<<"d","e","b","u","g">>, <<"D","E","B","U","G">>} -> ParseOk(Debug)
      [] s \in {<<"v","e","r","b","o","s","e">>, <<"V","E","R","B","O","S","E">>} -> ParseOk(Verbose)
      [] s \in {<<"i","n","f","o">>, <<"I","N","F","O">>} -> ParseOk(Info)
      [] s \in {<<"w","a","r","n","i","n","g">>, <<"W","A","R","N","I","N","G">>} -> ParseOk(Warning)
      [] s \in {<<"e","r","r","o","r">>, <<"E","R","R","O","R">>} -> ParseOk(Error)
      [] s \in {<<"c","r","i","t","i","c","a","l">>, <<"C","R","I","T","I","C","A","L">>} -> ParseOk(Critical)
      [] OTHER -> ParseErr(<<"I","n","v","a","l","i","d"," ","s","e","v","e","r","i","t","y",":"," ">> \o s)

Severity_from_str(s) ==
    CASE s \in {<<"d","e","b","u","g">>, <<"D","e","b","u","g">>,
                <<"D","E","B","U","G">>} -> ParseOk(Debug)
      [] s \in {<<"v","e","r","b","o","s","e">>, <<"V","e","r","b","o","s","e">>,
                <<"V","E","R","B","O","S","E">>} -> ParseOk(Verbose)
      [] s \in {<<"i","n","f","o">>, <<"I","n","f","o">>,
                <<"I","N","F","O">>} -> ParseOk(Info)
      [] s \in {<<"w","a","r","n","i","n","g">>, <<"W","a","r","n","i","n","g">>,
                <<"W","A","R","N","I","N","G">>} -> ParseOk(Warning)
      [] s \in {<<"e","r","r","o","r">>, <<"E","r","r","o","r">>,
                <<"E","R","R","O","R">>} -> ParseOk(Error)
      [] s \in {<<"c","r","i","t","i","c","a","l">>, <<"C","r","i","t","i","c","a","l">>,
                <<"C","R","I","T","I","C","A","L">>} -> ParseOk(Critical)
      [] OTHER -> ParseErr(<<"I","n","v","a","l","i","d"," ","s","e","v","e","r","i","t","y",":"," ">> \o s)

\* Display for Severity: the capitalized name.
Severity_fmt(sev) ==
    CASE sev = Debug -> <<"D","e","b","u","g">>
      [] sev = Verbose -> <<"V","e","r","b","o","s","e">>
      [] sev = Info -> <<"I","n","f","o">>
      [] sev = Warning -> <<"W","a","r","n","i","n","g">>
      [] sev = Error -> <<"E","r","r","o","r">>
      [] sev = Critical -> <<"C","r","i","t","i","c","a","l">>

(***************************************************************************)
(* LogEntry (logging.rs 68-114).                                           *)
(***************************************************************************)
\* LogEntry::default(), t being what current_time_millis() returns.
LogEntry_default(t) ==
    [timestamp |-> t, severity |-> Debug, text |-> <<>>, category |-> None,
     class_name |-> None, method_name |-> None, thread_id |-> None]

\* Display for LogEntry: "{} {} {}" of timestamp, severity, text.
LogEntry_fmt(e) ==
    Concat(<<IntToString(e.timestamp), <<" ">>, Severity_fmt(e.severity),
             <<" ">>, e.text>>)

(***************************************************************************)
(* The log! macro (lib.rs 62-88).                                          *)
(***************************************************************************)
\* A value handed to log!: a string or an integer, both of which have
\* to_string().
StrVal(s) == [kind |-> "str", s |-> s, n |-> 0]
IntVal(n) == [kind |-> "int", s |-> <<>>, n |-> n]
to_string(v) == IF v.kind = "int" THEN IntToString(v.n) ELSE v.s

\* A BTreeMap<String, String> is the sequence of its (key, value) pairs in
\* key order.  insert() replaces the value of a key that is present.
BTreeMap_new == <<>>

BTreeMap_insert_keep_first(m, k, v) ==
    IF \E i \in 1..Len(m) : m[i].k = k
    THEN m
    ELSE LET lo == SelectSeq(m, LAMBDA p : StrLess(p.k, k))
             hi == SelectSeq(m, LAMBDA p : StrLess(k, p.k))
         IN  lo \o <<[k |-> k, v |-> v]>> \o hi

BTreeMap_insert(m, k, v) ==
    LET lo == SelectSeq(m, LAMBDA p : StrLess(p.k, k))
        hi == SelectSeq(m, LAMBDA p : StrLess(k, p.k))
    IN  lo \o <<[k |-> k, v |-> v]>> \o hi

\* serde_json's escaping of one character inside a JSON string.
JsonEscapeCh(c) ==
    CASE c = "\"" -> <<"\\", "\"">>
      [] c = "\\" -> <<"\\", "\\">>
      [] c = "\n" -> <<"\\", "n">>
      [] c = "\r" -> <<"\\", "r">>
      [] c = "\t" -> <<"\\", "t">>
      [] OTHER -> <<c>>

RECURSIVE JsonEscape(_)
JsonEscape(s) ==
    IF s = <<>> THEN <<>> ELSE JsonEscapeCh(Head(s)) \o JsonEscape(Tail(s))

JsonString(s) == <<"\"">> \o JsonEscape(s) \o <<"\"">>

RECURSIVE JsonMembers(_)
JsonMembers(m) ==
    IF m = <<>> THEN <<>>
    ELSE JsonString(m[1].k) \o <<":">> \o JsonString(m[1].v)
         \o (IF Len(m) > 1 THEN <<",">> ELSE <<>>) \o JsonMembers(Tail(m))

\* serde_json::to_string(&fields) for a BTreeMap<String, String>; it cannot
\* fail for such a map, so the Err arm of the macro is never taken.
serde_json_to_string(m) == <<"{">> \o JsonMembers(m) \o <<"}">>

KeyText == <<"t","e","x","t">>
KeyCategory == <<"c","a","t","e","g","o","r","y">>
KeyClassName == <<"c","l","a","s","s","_","n","a","m","e">>
KeyMethodName == <<"m","e","t","h","o","d","_","n","a","m","e">>
KeyThreadId == <<"t","h","r","e","a","d","_","i","d">>

\* The state of one expansion of log!: fields, has_text and entry.
log_start(sev, t) ==
    [fields |-> BTreeMap_new, has_text |-> FALSE,
     entry |-> [LogEntry_default(t) EXCEPT !.severity = sev]]

\* One repetition of the macro body for the pair k: v (lib.rs 69-78).
log_pair(st, p) ==
    LET val == to_string(p.v)
        key == p.k
    IN  CASE key = KeyText ->
                [st EXCEPT !.entry.text = val, !.has_text = TRUE]
          [] key = KeyCategory -> [st EXCEPT !.entry.category = Some(val)]
          [] key = KeyClassName -> [st EXCEPT !.entry.class_name = Some(val)]
          [] key = KeyMethodName -> [st EXCEPT !.entry.method_name = Some(val)]
          [] key = KeyThreadId -> [st EXCEPT !.entry.thread_id = Some(val)]
          [] OTHER -> [st EXCEPT !.fields = BTreeMap_insert(@, key, val)]

RECURSIVE log_pairs(_, _)
log_pairs(st, pairs) ==
    IF pairs = <<>> THEN st
    ELSE log_pairs(log_pair(st, Head(pairs)), Tail(pairs))

log_finish_always_json(st) ==
    [st.entry EXCEPT !.text = serde_json_to_string(st.fields)]

\* lib.rs 80-85: the entry as it is handed to $qu.log().
log_finish(st) ==
    IF ~st.has_text
    THEN [st.entry EXCEPT !.text = serde_json_to_string(st.fields)]
    ELSE st.entry

\* The entry log!(qu, sev, pairs...) builds when the clock reads t.
log_entry(sev, pairs, t) == log_finish(log_pairs(log_start(sev, t), pairs))

(***************************************************************************)
(* LogQueue (logging.rs 143-189).  A queue is its entries vector.          *)
(***************************************************************************)
LogQueue_new == <<>>
LogQueue_from(entries) == entries

LogQueue_take_keeps(q) == [self |-> q, ret |-> q]

\* take(): ve.append(&mut self.entries) moves every entry to ve, in order.
LogQueue_take(q) == [self |-> <<>>, ret |-> <<>> \o q]

LogQueue_is_empty(q) == Len(q) = 0

LogQueue_clear(q) == <<>>

LogQueue_log_front(q, e) == <<e>> \o q

LogQueue_log(q, e) == Append(q, e)

(***************************************************************************)
(* Helpers of the specifications.                                          *)
(***************************************************************************)
\* All sequences over S of length at most n.
SeqsUpTo(S, n) == UNION {[1..k -> S] : k \in 0..n}

RECURSIVE Flatten(_)
\* The concatenation of the batches of a sequence of drain records.
Flatten(ds) == IF ds = <<>> THEN <<>> ELSE Head(ds).batch \o Flatten(Tail(ds))

NoRet == [op |-> "none", batch |-> <<>>, empty |-> FALSE]
NoArgs == [kind |-> "none"]
NoResp == [received |-> FALSE, status |-> 0, body |-> None]
NoResult == [returned |-> FALSE, value |-> Ok]

queueVars == <<queue, appended, drained, ret>>
callVars == <<args, now, pc, result>>
netVars == <<requests, output, resp>>
sharedVars == <<lock, owners>>

QueueIdle == queue = <<>> /\ appended = <<>> /\ drained = <<>> /\ ret = NoRet
CallIdle == args = NoArgs /\ now = 0 /\ pc = "idle" /\ result = NoResult
NetIdle == requests = <<>> /\ output = <<>> /\ resp = NoResp
SharedIdle == lock = "free" /\ owners = <<>>

\* Two entries a caller may append: A and B differ in severity and text.
EntryA == [LogEntry_default(0) EXCEPT !.text = <<"A">>]
EntryB == [LogEntry_default(1) EXCEPT !.text = <<"B">>, !.severity = Error]
EntryPool == {EntryA, EntryB}

(***************************************************************************)
(* Spec: one LogQueue and a caller that appends, takes, clears and asks    *)
(* is_empty in any order.                                                  *)
(***************************************************************************)
Init ==
    /\ \E es \in SeqsUpTo(EntryPool, MaxFrom) :
          /\ queue = (IF es = <<>> THEN LogQueue_new ELSE LogQueue_from(es))
          /\ appended = es
    /\ drained = <<>>
    /\ ret = NoRet
    /\ CallIdle /\ NetIdle /\ SharedIdle

QLog ==
    /\ Len(appended) < MaxAppends
    /\ \E e \in EntryPool :
          /\ queue' = LogQueue_log(queue, e)
          /\ appended' = Append(appended, e)
    /\ ret' = [NoRet EXCEPT !.op = "log"]
    /\ UNCHANGED <<drained, callVars, netVars, sharedVars>>

QTake ==
    /\ Len(drained) < MaxDrains
    /\ LET r == LogQueue_take(queue)
       IN  /\ queue' = r.self
           /\ ret' = [NoRet EXCEPT !.op = "take", !.batch = r.ret]
           /\ drained' = Append(drained, [op |-> "take", batch |-> r.ret])
    /\ UNCHANGED <<appended, callVars, netVars, sharedVars>>

QClear ==
    /\ Len(drained) < MaxDrains
    /\ queue' = LogQueue_clear(queue)
    /\ ret' = [NoRet EXCEPT !.op = "clear"]
    /\ drained' = Append(drained, [op |-> "clear", batch |-> queue])
    /\ UNCHANGED <<appended, callVars, netVars, sharedVars>>

QIsEmpty ==
    /\ ret' = [NoRet EXCEPT !.op = "is_empty", !.empty = LogQueue_is_empty(queue)]
    /\ UNCHANGED <<queue, appended, drained, callVars, netVars, sharedVars>>

Next == QLog \/ QTake \/ QClear \/ QIsEmpty

Spec == Init /\ [][Next]_vars

\* C1: a take() returns exactly the entries buffered since the last drain
\* (those put in by from() and log()), in append order, and leaves the queue
\* empty, so that is_empty() is true right after it.
C1_TakeReturnsAppendOrder ==
    ret.op = "take" =>
        LET before == Flatten(SubSeq(drained, 1, Len(drained) - 1))
        IN  /\ ret.batch = SubSeq(appended, Len(before) + 1, Len(appended))
            /\ queue = <<>>
            /\ LogQueue_is_empty(queue)

\* A then B were appended and take() has just returned the two of them.
C1_Witness ==
    /\ ret.op = "take"
    /\ ret.batch = <<EntryA, EntryB>>
    /\ appended = <<EntryA, EntryB>>

\* C10: every entry ever appended is in exactly one place: the batches that
\* take() returned and clear() discarded, in call order, followed by what is
\* still buffered, are the append sequence.
C10_Conservation == Flatten(drained) \o queue = appended

\* A take() that returned an entry, a clear() that discarded one, and an
\* entry appended after both that is still buffered.
C10_Witness ==
    /\ \E i, j \in 1..Len(drained) :
          /\ i < j
          /\ drained[i].op = "take" /\ drained[i].batch # <<>>
          /\ drained[j].op = "clear" /\ drained[j].batch # <<>>
    /\ queue # <<>>

(***************************************************************************)
(* SpecMacro: one expansion of log! on a fresh queue, then a take().       *)
(***************************************************************************)
KeyMethod == <<"m","e","t","h","o","d">>
KeyUrl == <<"u","r","l">>
KeyStatus == <<"s","t","a","t","u","s">>
ReservedKeys == {KeyText, KeyCategory, KeyClassName, KeyMethodName, KeyThreadId}

Pair(k, v) == [k |-> k, v |-> v]

\* The key: value pairs a log! invocation is built from: every reserved key,
\* three other keys (one of them twice, with different values), string and
\* integer values, and a value that JSON has to escape.
PairPool ==
    {Pair(KeyText, StrVal(<<"c","u","s","t","o","m">>)),
     Pair(KeyText, IntVal(7)),
     Pair(KeyCategory, StrVal(<<"c">>)),
     Pair(KeyClassName, StrVal(<<"k">>)),
     Pair(KeyMethodName, StrVal(<<"m">>)),
     Pair(KeyThreadId, IntVal(1)),
     Pair(KeyMethod, StrVal(<<"G","E","T">>)),
     Pair(KeyMethod, StrVal(<<"a","\"","b">>)),
     Pair(KeyUrl, StrVal(<<"u","/","x">>)),
     Pair(KeyStatus, IntVal(200))}

\* What the clock may read when the entry is built.
Clock == {7, 1234}

InitMacro ==
    /\ \E sev \in Severity, pairs \in SeqsUpTo(PairPool, MaxPairs) :
          args = [kind |-> "log", sev |-> sev, pairs |-> pairs]
    /\ now \in Clock
    /\ pc = "idle"
    /\ result = NoResult
    /\ queue = LogQueue_new
    /\ appended = <<>> /\ drained = <<>> /\ ret = NoRet
    /\ NetIdle /\ SharedIdle

\* log!(queue, sev, pairs...): builds the entry and ends with $qu.log(entry).
MLog ==
    /\ pc = "idle"
    /\ LET entry == log_entry(args.sev, args.pairs, now)
       IN  /\ queue' = LogQueue_log(queue, entry)
           /\ appended' = Append(appended, entry)
    /\ ret' = [NoRet EXCEPT !.op = "log"]
    /\ pc' = "logged"
    /\ UNCHANGED <<drained, args, now, result, netVars, sharedVars>>

MTake ==
    /\ pc = "logged"
    /\ LET r == LogQueue_take(queue)
       IN  /\ queue' = r.self
           /\ ret' = [NoRet EXCEPT !.op = "take", !.batch = r.ret]
           /\ drained' = Append(drained, [op |-> "take", batch |-> r.ret])
    /\ pc' = "taken"
    /\ UNCHANGED <<appended, args, now, result, netVars, sharedVars>>

NextMacro == MLog \/ MTake

SpecMacro == InitMacro /\ [][NextMacro]_vars

HasTextKey(pairs) == \E i \in 1..Len(pairs) : pairs[i].k = KeyText
OtherKeys(pairs) == {pairs[i].k : i \in 1..Len(pairs)} \ ReservedKeys
LastIndex(pairs, k) ==
    CHOOSE i \in 1..Len(pairs) :
        /\ pairs[i].k = k
        /\ \A j \in 1..Len(pairs) : pairs[j].k = k => j <= i

RECURSIVE InKeyOrder(_)
\* The keys of the set S as a sequence, lexicographically least first.
InKeyOrder(S) ==
    IF S = {} THEN <<>>
    ELSE LET least == CHOOSE k \in S : \A x \in S \ {k} : StrLess(k, x)
         IN  <<least>> \o InKeyOrder(S \ {least})

RECURSIVE JsonObjectOf(_, _)
\* {"k1":"v1","k2":"v2"} for the keys ks in the order given, each with the
\* stringified value of its last occurrence in pairs.
JsonObjectOf(ks, pairs) ==
    IF ks = <<>> THEN <<>>
    ELSE JsonString(Head(ks)) \o <<":">>
         \o JsonString(to_string(pairs[LastIndex(pairs, Head(ks))].v))
         \o (IF Tail(ks) = <<>> THEN <<>> ELSE <<",">> \o JsonObjectOf(Tail(ks), pairs))

\* C5: without a text key, log! produces one entry whose text is the JSON
\* object of the non-reserved keys in lexicographic order, each mapped to
\* the stringified value of its last occurrence.
C5_TextIsSortedJsonOfOtherKeys ==
    (pc # "idle" /\ ~HasTextKey(args.pairs)) =>
        /\ Len(appended) = 1
        /\ appended[1].severity = args.sev
        /\ appended[1].text =
              <<"{">> \o JsonObjectOf(InKeyOrder(OtherKeys(args.pairs)), args.pairs)
              \o <<"}">>

\* log!(q, Info, method: "GET", url: "u/x", status: 200) has put an entry
\* with text {"method":"GET","status":"200","url":"u/x"} into the queue.
C5_Witness ==
    /\ pc = "logged"
    /\ args.sev = Info
    /\ args.pairs = <<Pair(KeyMethod, StrVal(<<"G","E","T">>)),
                      Pair(KeyUrl, StrVal(<<"u","/","x">>)),
                      Pair(KeyStatus, IntVal(200))>>
    /\ queue[1].text =
          <<"{", "\"","m","e","t","h","o","d","\"", ":", "\"","G","E","T","\"", ",",
            "\"","s","t","a","t","u","s","\"", ":", "\"","2","0","0","\"", ",",
            "\"","u","r","l","\"", ":", "\"","u","/","x","\"", "}">>

\* C6: with a text key, wherever it stands, the entry's text is the (last)
\* supplied text value and the entry is the one the reserved pairs alone
\* give: the other keys and their values leave no trace in it.
C6_TextKeyDropsOtherKeys ==
    (pc # "idle" /\ HasTextKey(args.pairs)) =>
        LET reserved == SelectSeq(args.pairs, LAMBDA p : p.k \in ReservedKeys)
        IN  /\ Len(appended) = 1
            /\ appended[1].text =
                  to_string(args.pairs[LastIndex(args.pairs, KeyText)].v)
            /\ appended[1] = log_entry(args.sev, reserved, now)

\* A non-reserved pair stands before the text key and another after it.
C6_Witness ==
    /\ pc = "logged"
    /\ Len(args.pairs) = 3
    /\ args.pairs[1].k = KeyMethod
    /\ args.pairs[2] = Pair(KeyText, StrVal(<<"c","u","s","t","o","m">>))
    /\ args.pairs[3].k = KeyStatus
    /\ queue[1].text = <<"c","u","s","t","o","m">>

(***************************************************************************)
(* SpecSeverity: one call of "...".parse::<Severity>().                    *)
(***************************************************************************)
RECURSIVE CaseMixes(_)
\* Every way of writing s with each letter in lower or upper case.
CaseMixes(s) ==
    IF s = <<>> THEN {<<>>}
    ELSE {<<c>> \o rest : c \in {ToLowerCh(Head(s)), ToUpperCh(Head(s))},
                          rest \in CaseMixes(Tail(s))}

\* The six names, lower case, indexed by the Severity they name.
SeverityNames ==
    <<<<"d","e","b","u","g">>, <<"v","e","r","b","o","s","e">>, <<"i","n","f","o">>,
      <<"w","a","r","n","i","n","g">>, <<"e","r","r","o","r">>,
      <<"c","r","i","t","i","c","a","l">>>>

\* Strings handed to from_str: the names in every mix of cases, the names
\* with a character cut off or added, and a few strings that are no name.
ParseInputs ==
    UNION {CaseMixes(SeverityNames[sev]) : sev \in Severity}
    \cup {SubSeq(SeverityNames[sev], 1, Len(SeverityNames[sev]) - 1) : sev \in Severity}
    \cup {SeverityNames[sev] \o <<" ">> : sev \in Severity}
    \cup {<<" ">> \o Capitalize(SeverityNames[sev]) : sev \in Severity}
    \cup {<<>>, <<"t","r","a","c","e">>, <<"w","a","r","n">>, <<"3">>}

InitSeverity ==
    /\ \E s \in ParseInputs : args = [kind |-> "from_str", s |-> s]
    /\ now = 0
    /\ pc = "idle"
    /\ result = NoResult
    /\ QueueIdle /\ NetIdle /\ SharedIdle

Parse ==
    /\ pc = "idle"
    /\ result' = [returned |-> TRUE, value |-> Severity_from_str(args.s)]
    /\ pc' = "done"
    /\ UNCHANGED <<args, now, queueVars, netVars, sharedVars>>

NextSeverity == Parse

SpecSeverity == InitSeverity /\ [][NextSeverity]_vars

\* The three spellings of a name that parse: lower case, Capitalized, UPPER.
Spellings(name) == {name, Capitalize(name), ToUpper(name)}

\* C9: each of the 18 spellings parses to the Severity it names; every other
\* string fails, with an error that carries the string.
C9_ParseSeverity ==
    result.returned =>
        IF \E sev \in Severity : args.s \in Spellings(SeverityNames[sev])
        THEN \A sev \in Severity :
                args.s \in Spellings(SeverityNames[sev]) =>
                    result.value = ParseOk(sev)
        ELSE /\ ~result.value.ok
             /\ Contains(result.value.msg, args.s)
             /\ Len(result.value.msg) > Len(args.s)

\* "Warning" has been parsed to Severity::Warning.
C9_Witness ==
    /\ result.returned
    /\ args.s = <<"W","a","r","n","i","n","g">>
    /\ result.value = ParseOk(Warning)

(***************************************************************************)
(* The Logger implementations (logging.rs 204-370).                        *)
(***************************************************************************)
\* BlackHoleLogger::send: drops the entries.
BlackHoleLogger_send(sub, entries) == Ok

\* CoralogixLogger::init(config): the configuration is copied into the logger.
CoralogixLogger_init(config) ==
    [kind |-> "Coralogix", api_key |-> config.api_key,
     application_name |-> config.application_name, endpoint |-> config.endpoint]

ConsoleLogger_init == [kind |-> "Console"]
silent_logger == [kind |-> "BlackHole"]

\* The request send() hands to the client: .post(&self.endpoint).json(&msg),
\* msg being the CxLogMsg of logging.rs 285-290.
CxRequest(self, sub, entries) ==
    [url |-> self.endpoint,
     json |-> [private_key |-> self.api_key,
               application_name |-> self.application_name,
               subsystem_name |-> sub,
               log_entries |-> entries]]

CoralogixLogger_send_begin_unguarded(self, sub, entries) ==
    [posts |-> <<CxRequest(self, sub, entries)>>, pending |-> TRUE]

\* CoralogixLogger::send up to its first await: the requests it issues and
\* whether it then waits for the client (logging.rs 284-296).
CoralogixLogger_send_begin(self, sub, entries) ==
    IF entries # <<>>
    THEN [posts |-> <<CxRequest(self, sub, entries)>>, pending |-> TRUE]
    ELSE [posts |-> <<>>, pending |-> FALSE]

CoralogixLogger_send_failed_dropped(e) == Ok

\* .send().await failed with e: map_err(|e| CxErr { msg: e.to_string() })?
CoralogixLogger_send_failed(e) == Err(e)

check_status_300_ok(status, text) ==
    IF status >= 200 /\ status <= 300
    THEN Ok
    ELSE LET body == IF text.some THEN text.val ELSE <<>>
         IN  Err(Concat(<<<<"L","o","g","g","i","n","g"," ","E","r","r","o","r",":"," ",
                           "s","t","a","t","u","s",":">>,
                         IntToString(status), <<" ">>, body>>))

\* check_status(resp): text is what resp.text().await gives, Some(body) or
\* None when the body cannot be read; it is awaited only for a status
\* outside 200..300.
check_status(status, text) ==
    IF status >= 200 /\ status < 300
    THEN Ok
    ELSE LET body == IF text.some THEN text.val ELSE <<>>
         IN  Err(Concat(<<<<"L","o","g","g","i","n","g"," ","E","r","r","o","r",":"," ",
                           "s","t","a","t","u","s",":">>,
                         IntToString(status), <<" ">>, body>>))

\* check_status(resp).await.map_err(|e| CxErr { msg: e.to_string() })?; Ok(())
CoralogixLogger_send_end(status, text) ==
    LET r == check_status(status, text)
    IN  IF r.ok THEN Ok ELSE Err(r.msg)

ConsoleLogger_send_display(sub, entries) ==
    [lines |-> [i \in 1..Len(entries) |-> LogEntry_fmt(entries[i])], value |-> Ok]

\* ConsoleLogger::send: one println! (console.log on wasm32) per entry.
ConsoleLogger_send(sub, entries) ==
    [lines |-> [i \in 1..Len(entries) |->
                   Concat(<<IntToString(entries[i].timestamp), <<" ">>, sub, <<" ">>,
                            Severity_fmt(entries[i].severity), <<" ">>,
                            entries[i].text>>)],
     value |-> Ok]

(***************************************************************************)
(* SpecSend: a caller drains a queue and sends the batch with one Logger.  *)
(***************************************************************************)
EntryC ==
    log_entry(Warning, <<Pair(KeyCategory, StrVal(<<"c">>)),
                         Pair(KeyUrl, StrVal(<<"u","/","x">>))>>, 1234)
SendPool == {EntryA, EntryB, EntryC}

Configs ==
    {[api_key |-> <<"k","1">>, application_name |-> <<"a","p","p">>,
      endpoint |-> <<"h","t","t","p","s",":","/","/","c","x","/","l","o","g","s">>],
     [api_key |-> <<"k","2">>, application_name |-> <<"w","e","b">>,
      endpoint |-> <<"h","t","t","p",":","/","/","l","o","c","a","l">>]}
Loggers ==
    {CoralogixLogger_init(c) : c \in Configs} \cup {ConsoleLogger_init, silent_logger}
Subs == {<<"h","t","t","p">>, <<"j","o","b","-","1">>}

\* Status codes a response may carry, bodies it may have (None: the body
\* cannot be read), and the text of a failure of the client.
Statuses == {100, 199, 200, 204, 299, 300, 301, 404, 500, 503}
Bodies ==
    {None, Some(<<>>), Some(<<"n","o">>),
     Some(<<"q","u","o","t","a"," ","e","x","c","e","e","d","e","d">>)}
TransportErrors == {<<"t","i","m","e","d"," ","o","u","t">>, <<"d","n","s">>}

InitSend ==
    /\ \E es \in SeqsUpTo(SendPool, MaxBatch) :
          /\ queue = (IF es = <<>> THEN LogQueue_new ELSE LogQueue_from(es))
          /\ appended = es
    /\ drained = <<>>
    /\ ret = NoRet
    /\ \E l \in Loggers, sub \in Subs :
          args = [kind |-> "send", logger |-> l, sub |-> sub, entries |-> <<>>]
    /\ now = 0
    /\ pc = "idle"
    /\ result = NoResult
    /\ NetIdle /\ SharedIdle

\* logger.send(sub, queue.take()) with the silent logger.
SendBlackHole ==
    /\ pc = "idle"
    /\ args.logger.kind = "BlackHole"
    /\ LET r == LogQueue_take(queue)
       IN  /\ queue' = r.self
           /\ ret' = [NoRet EXCEPT !.op = "take", !.batch = r.ret]
           /\ drained' = Append(drained, [op |-> "take", batch |-> r.ret])
           /\ args' = [args EXCEPT !.entries = r.ret]
           /\ result' = [returned |-> TRUE, value |-> BlackHoleLogger_send(args.sub, r.ret)]
    /\ pc' = "done"
    /\ UNCHANGED <<appended, now, netVars, sharedVars>>

\* logger.send(sub, queue.take()) with the ConsoleLogger.
SendConsole ==
    /\ pc = "idle"
    /\ args.logger.kind = "Console"
    /\ LET r == LogQueue_take(queue)
           s == ConsoleLogger_send(args.sub, r.ret)
       IN  /\ queue' = r.self
           /\ ret' = [NoRet EXCEPT !.op = "take", !.batch = r.ret]
           /\ drained' = Append(drained, [op |-> "take", batch |-> r.ret])
           /\ args' = [args EXCEPT !.entries = r.ret]
           /\ output' = output \o s.lines
           /\ result' = [returned |-> TRUE, value |-> s.value]
    /\ pc' = "done"
    /\ UNCHANGED <<appended, now, requests, resp, sharedVars>>

\* logger.send(sub, queue.take()) with the CoralogixLogger, up to the await
\* of the client's send().
SendCoralogix ==
    /\ pc = "idle"
    /\ args.logger.kind = "Coralogix"
    /\ LET r == LogQueue_take(queue)
           b == CoralogixLogger_send_begin(args.logger, args.sub, r.ret)
       IN  /\ queue' = r.self
           /\ ret' = [NoRet EXCEPT !.op = "take", !.batch = r.ret]
           /\ drained' = Append(drained, [op |-> "take", batch |-> r.ret])
           /\ args' = [args EXCEPT !.entries = r.ret]
           /\ requests' = requests \o b.posts
           /\ IF b.pending
              THEN pc' = "await_send" /\ result' = result
              ELSE pc' = "done" /\ result' = [returned |-> TRUE, value |-> Ok]
    /\ UNCHANGED <<appended, now, output, resp, sharedVars>>

\* The client fails to deliver the request (connect, timeout, TLS, ...).
TransportFails ==
    /\ pc = "await_send"
    /\ \E e \in TransportErrors :
          result' = [returned |-> TRUE, value |-> CoralogixLogger_send_failed(e)]
    /\ pc' = "done"
    /\ UNCHANGED <<queueVars, args, now, netVars, sharedVars>>

\* A response arrives; check_status returns at once for a 2xx status and
\* otherwise awaits the body.
ResponseArrives ==
    /\ pc = "await_send"
    /\ \E status \in Statuses :
          /\ resp' = [received |-> TRUE, status |-> status, body |-> None]
          /\ IF check_status(status, None).ok
             THEN /\ result' = [returned |-> TRUE,
                                value |-> CoralogixLogger_send_end(status, None)]
                  /\ pc' = "done"
             ELSE /\ result' = result
                  /\ pc' = "await_text"
    /\ UNCHANGED <<queueVars, args, now, requests, output, sharedVars>>

\* resp.text().await completes, with the body or with a failure to read it.
BodyArrives ==
    /\ pc = "await_text"
    /\ \E text \in Bodies :
          /\ resp' = [resp EXCEPT !.body = text]
          /\ result' = [returned |-> TRUE,
                        value |-> CoralogixLogger_send_end(resp.status, text)]
    /\ pc' = "done"
    /\ UNCHANGED <<queueVars, args, now, requests, output, sharedVars>>

NextSend ==
    \/ SendBlackHole
    \/ SendConsole
    \/ SendCoralogix
    \/ TransportFails
    \/ ResponseArrives
    \/ BodyArrives

SpecSend == InitSend /\ [][NextSend]_vars

\* C2: send(sub, []) returns success, with any Logger and any sub, without
\* a POST request and without a line of output.
C2_EmptyBatchIsNoOp ==
    (pc # "idle" /\ args.entries = <<>>) =>
        /\ result.returned
        /\ result.value.ok
        /\ requests = <<>>
        /\ output = <<>>
        /\ pc = "done"

\* A CoralogixLogger has been sent an empty batch and has returned.
C2_Witness ==
    /\ pc = "done"
    /\ args.logger.kind = "Coralogix"
    /\ args.entries = <<>>
    /\ result.returned

\* C3: when a response is received for a non-empty batch, send succeeds
\* exactly if 200 <= status < 300; otherwise it fails with a message that
\* contains the status code and the body text (the empty string when the
\* body cannot be read).
C3_StatusDecidesOutcome ==
    (args.kind = "send" /\ args.logger.kind = "Coralogix" /\ args.entries # <<>>
     /\ resp.received /\ result.returned) =>
        /\ result.value.ok <=> (200 <= resp.status /\ resp.status < 300)
        /\ ~result.value.ok =>
              /\ Contains(result.value.msg, IntToString(resp.status))
              /\ Contains(result.value.msg,
                          IF resp.body.some THEN resp.body.val ELSE <<>>)

\* Status 500 with body "quota exceeded": send has failed with a message
\* containing "500" and "quota exceeded".
C3_Witness ==
    /\ pc = "done"
    /\ resp.received
    /\ resp.status = 500
    /\ resp.body = Some(<<"q","u","o","t","a"," ","e","x","c","e","e","d","e","d">>)
    /\ ~result.value.ok
    /\ Contains(result.value.msg, <<"5","0","0">>)
    /\ Contains(result.value.msg,
                <<"q","u","o","t","a"," ","e","x","c","e","e","d","e","d">>)

\* C4: a send of a non-empty batch by the CoralogixLogger issues exactly one
\* POST, to the configured endpoint, with the configured key and application
\* name, sub as subsystem name and the batch in order; no second request
\* follows whatever the outcome; and the call returns success only for a 2xx
\* response, so a transport failure or another status is returned as a
\* failure.
C4_OneAttemptOutcomeReturned ==
    (args.kind = "send" /\ args.logger.kind = "Coralogix" /\ pc # "idle"
     /\ args.entries # <<>>) =>
        /\ requests =
              <<[url |-> args.logger.endpoint,
                 json |-> [private_key |-> args.logger.api_key,
                           application_name |-> args.logger.application_name,
                           subsystem_name |-> args.sub,
                           log_entries |-> args.entries]]>>
        /\ result.returned =>
              (result.value.ok <=>
                  (resp.received /\ 200 <= resp.status /\ resp.status < 300))
        /\ result.returned <=> pc = "done"

\* A batch of two different entries was posted, the transport failed, and
\* send has returned the failure.
C4_Witness ==
    /\ pc = "done"
    /\ args.logger.kind = "Coralogix"
    /\ Len(args.entries) = 2
    /\ args.entries[1] # args.entries[2]
    /\ Len(requests) = 1
    /\ ~resp.received
    /\ result.returned /\ ~result.value.ok

\* C8: ConsoleLogger.send writes one line per entry of the batch, in batch
\* order, each "<timestamp> <sub> <severity name> <text>", and succeeds.
C8_ConsoleLinePerEntry ==
    (args.kind = "send" /\ args.logger.kind = "Console" /\ pc # "idle") =>
        /\ result.returned /\ result.value.ok
        /\ Len(output) = Len(args.entries)
        /\ \A i \in 1..Len(args.entries) :
              output[i] =
                  IntToString(args.entries[i].timestamp) \o <<" ">> \o args.sub
                  \o <<" ">> \o Capitalize(SeverityNames[args.entries[i].severity])
                  \o <<" ">> \o args.entries[i].text

\* The batch EntryC, EntryA drained from a queue was written as the lines
\* 1234 http Warning {"url":"u/x"}  and  0 http Debug A.
C8_Witness ==
    /\ pc = "done"
    /\ args.logger.kind = "Console"
    /\ args.sub = <<"h","t","t","p">>
    /\ ret.op = "take"
    /\ ret.batch = <<EntryC, EntryA>>
    /\ output =
          << <<"1","2","3","4"," ","h","t","t","p"," ","W","a","r","n","i","n","g"," ",
               "{","\"","u","r","l","\"",":","\"","u","/","x","\"","}">>,
             <<"0"," ","h","t","t","p"," ","D","e","b","u","g"," ","A">> >>

(***************************************************************************)
(* SpecShared: a LogQueue behind a mutex, appended to by several owners    *)
(* through AppendsLogInnerMut::log(&self, e) (lib.rs 21-27 declares the    *)
(* trait; its implementation is modelled as described: lock, push,         *)
(* unlock).                                                                *)
(***************************************************************************)
Owners == {"o1", "o2", "o3"}

Mutex_try_lock_unguarded(l, o) == [acquired |-> TRUE, lock |-> o]

\* An owner gets the mutex only while nobody holds it.
Mutex_try_lock(l, o) ==
    IF l = "free" THEN [acquired |-> TRUE, lock |-> o]
    ELSE [acquired |-> FALSE, lock |-> l]

Mutex_unlock(l, o) == IF l = o THEN "free" ELSE l

\* The n-th entry owner o appends: it names its owner in thread_id.
OwnerEntry(o, n) ==
    [LogEntry_default(0) EXCEPT !.text = IntToString(n), !.thread_id = Some(<<o>>)]

InitShared ==
    /\ queue = LogQueue_new
    /\ appended = <<>> /\ drained = <<>> /\ ret = NoRet
    /\ lock = "free"
    /\ owners = [o \in Owners |-> [pc |-> "idle", sent |-> <<>>]]
    /\ CallIdle /\ NetIdle

\* log(&self, e) begins: the owner acquires the lock.
Acquire(o) ==
    /\ owners[o].pc = "idle"
    /\ Len(owners[o].sent) < MaxOwnerAppends
    /\ LET r == Mutex_try_lock(lock, o)
       IN  /\ r.acquired
           /\ lock' = r.lock
    /\ owners' = [owners EXCEPT ![o].pc = "locked"]
    /\ UNCHANGED <<queueVars, callVars, netVars>>

\* Inside the lock: the entry is pushed with LogQueue::log.
Push(o) ==
    /\ owners[o].pc = "locked"
    /\ LET e == OwnerEntry(o, Len(owners[o].sent) + 1)
       IN  /\ queue' = LogQueue_log(queue, e)
           /\ appended' = Append(appended, e)
           /\ owners' = [owners EXCEPT ![o].pc = "pushed",
                                       ![o].sent = Append(@, e)]
    /\ UNCHANGED <<drained, ret, lock, callVars, netVars>>

\* log(&self, e) ends: the guard is dropped and the lock released.
Release(o) ==
    /\ owners[o].pc = "pushed"
    /\ lock' = Mutex_unlock(lock, o)
    /\ owners' = [owners EXCEPT ![o].pc = "idle"]
    /\ UNCHANGED <<queueVars, callVars, netVars>>

NextShared == \E o \in Owners : Acquire(o) \/ Push(o) \/ Release(o)

SpecShared == InitShared /\ [][NextShared]_vars

RECURSIVE SumLen(_)
SumLen(S) ==
    IF S = {} THEN 0
    ELSE LET o == CHOOSE x \in S : TRUE
         IN  Len(owners[o].sent) + SumLen(S \ {o})

\* C7: at most one append is inside the queue at any moment (the owner that
\* holds the lock), and under every interleaving the queue holds every
\* appended entry exactly once, each owner's entries in that owner's order.
C7_SharedAppendSafe ==
    /\ \A o1, o2 \in Owners :
          (owners[o1].pc # "idle" /\ owners[o2].pc # "idle") => o1 = o2
    /\ \A o \in Owners : owners[o].pc # "idle" => lock = o
    /\ \A o \in Owners :
          SelectSeq(queue, LAMBDA e : e.thread_id = Some(<<o>>)) = owners[o].sent
    /\ Len(queue) = SumLen(Owners)

\* Both owners have appended twice and their appends interleaved: o2's first
\* entry lies between o1's two.
C7_Witness ==
    /\ Len(queue) = 4
    /\ queue[1] = OwnerEntry("o1", 1)
    /\ queue[2] = OwnerEntry("o2", 1)
    /\ queue[3] = OwnerEntry("o1", 2)
    /\ lock = "free"

====
